---- MODULE Spec2Model ----
(***************************************************************************)
(* Model of the urology review system: the relational store (applicants,   *)
(* reviewers, reviews, final selections), the review and final-selection   *)
(* routes of the backend with the ReviewService calls they make, the       *)
(* applicant distribution, the seeder's assignment step and the client's   *)
(* saveReview.  Every store call (an await in the source) is one step.     *)
(***************************************************************************)
EXTENDS Integers, Sequences, FiniteSets

VARIABLES
    applicants,       \* table urology_applicants, rows in name order
    reviewers,        \* table urology_reviewers, rows in physical order
    reviews,          \* table urology_reviews, rows grouped by (applicant_id, reviewer_name)
    finalSelections,  \* table urology_final_selections, keyed by applicant_id
    req,              \* the backend requests in flight, one per slot
    distribution,     \* last result of getApplicantDistribution
    client,           \* the client's saveReview call
    now,              \* the clock read by new Date()
    writes,           \* how many requests have changed the store so far
    ui                \* the React component and its useApiData hook

vars == <<applicants, reviewers, reviews, finalSelections, req, distribution, client, now, writes,
          ui>>

(***************************************************************************)
(* Bounds of the model.                                                    *)
(***************************************************************************)
NumApplicants == 2
NumReviewers == 3
MaxInflight == 2
MaxWrites == 3

(***************************************************************************)
(* Values.  Null is SQL NULL / JSON null, Absent a key missing from a      *)
(* request body (undefined); strings have their own pair of markers.       *)
(***************************************************************************)
Null == -1
Absent == -2
NullStr == "null"
AbsentStr == "absent"

ApplicantIds == 1..NumApplicants
UnknownApplicant == NumApplicants + 1
ReviewerNames == 1..NumReviewers
Slots == 1..MaxInflight

Decisions == {"Definitely Interview", "Maybe", "Do Not Interview"}
AdminDecisions == {"Selected", "Not Selected", "Pending"}

Range(f) == {f[i] : i \in DOMAIN f}

RECURSIVE SumSeq(_)
SumSeq(s) == IF s = <<>> THEN 0 ELSE Head(s) + SumSeq(Tail(s))

\* the orders in which a SELECT without ORDER BY may return the rows s
SeqPermutations(s) ==
    {p \in [DOMAIN s -> Range(s)] : \A i, j \in DOMAIN s : i # j => p[i] # p[j]}

(***************************************************************************)
(* Request bodies (CreateReviewRequest / UpdateReviewRequest).             *)
(***************************************************************************)
Body(pre, prs, und, lea, aca, res, per, notes, decision) ==
    [preference |-> pre, pressure |-> prs, underserved |-> und, leadership |-> lea,
     academic |-> aca, research |-> res, personal |-> per,
     notes |-> notes, decision |-> decision]

Body28 == Body(4, 3, 5, 4, 5, 3, 4, "n1", "Definitely Interview")
Body20 == Body(2, 3, 3, 3, 3, 3, 3, "n2", "Maybe")
BodyPartial == Body(Absent, 5, Absent, Absent, Absent, Absent, Absent, AbsentStr, AbsentStr)
BodyHigh == Body(4, 6, 5, 4, 5, 3, 4, "n1", "Definitely Interview")

ValidBodies == {Body28, Body20, BodyPartial}
InvalidBodies == {BodyHigh}
Bodies == ValidBodies \cup InvalidBodies

ScoreOf(b) == <<b.preference, b.pressure, b.underserved, b.leadership,
                b.academic, b.research, b.personal>>

(***************************************************************************)
(* Table urology_reviews.                                                  *)
(***************************************************************************)
Coalesce(x) == IF x = Null THEN 0 ELSE x

\* total_score INTEGER GENERATED ALWAYS AS (COALESCE(...) + ...) STORED
TotalScoreColumnDropsPersonal(row) ==
    Coalesce(row.preference) + Coalesce(row.pressure) + Coalesce(row.underserved)
    + Coalesce(row.leadership) + Coalesce(row.academic) + Coalesce(row.research)

TotalScoreColumn(row) ==
    Coalesce(row.preference) + Coalesce(row.pressure) + Coalesce(row.underserved)
    + Coalesce(row.leadership) + Coalesce(row.academic) + Coalesce(row.research)
    + Coalesce(row.personal)

\* JS `x || 0`: undefined, null and 0 all give 0.
OrZero(x) == IF x \in {Null, Absent, 0} THEN 0 ELSE x

calculateTotalScore(review) ==
    SumSeq(<<OrZero(review.preference), OrZero(review.pressure),
             OrZero(review.underserved), OrZero(review.leadership),
             OrZero(review.academic), OrZero(review.research),
             OrZero(review.personal)>>)

WithTotal(cols) ==
    [preference |-> cols.preference, pressure |-> cols.pressure,
     underserved |-> cols.underserved, leadership |-> cols.leadership,
     academic |-> cols.academic, research |-> cols.research,
     personal |-> cols.personal, notes |-> cols.notes, decision |-> cols.decision,
     total_score |-> TotalScoreColumn(cols)]

\* A key that JSON.stringify drops (undefined) leaves the column at its default, NULL.
InsertCol(v) == IF v = Absent THEN Null ELSE v
InsertStr(v) == IF v = AbsentStr THEN NullStr ELSE v
\* An UPDATE sets only the columns the body names.
UpdateColToggles(old, v) == IF v = Absent THEN old ELSE IF old = v THEN Null ELSE v
UpdateCol(old, v) == IF v = Absent THEN old ELSE v
UpdateStr(old, v) == IF v = AbsentStr THEN old ELSE v

NewRowDropsNotes(b) ==
    WithTotal(Body(InsertCol(b.preference), InsertCol(b.pressure), InsertCol(b.underserved),
                   InsertCol(b.leadership), InsertCol(b.academic), InsertCol(b.research),
                   InsertCol(b.personal), NullStr, InsertStr(b.decision)))
NewRow(b) ==
    WithTotal(Body(InsertCol(b.preference), InsertCol(b.pressure), InsertCol(b.underserved),
                   InsertCol(b.leadership), InsertCol(b.academic), InsertCol(b.research),
                   InsertCol(b.personal), InsertStr(b.notes), InsertStr(b.decision)))

PatchedRow(row, b) ==
    WithTotal(Body(UpdateCol(row.preference, b.preference), UpdateCol(row.pressure, b.pressure),
                   UpdateCol(row.underserved, b.underserved),
                   UpdateCol(row.leadership, b.leadership),
                   UpdateCol(row.academic, b.academic), UpdateCol(row.research, b.research),
                   UpdateCol(row.personal, b.personal), UpdateStr(row.notes, b.notes),
                   UpdateStr(row.decision, b.decision)))

\* CHECK (col >= 1 AND col <= 5) on every score, CHECK (decision IN (...)): NULL passes.
ScoreCheck(v) == v = Null \/ (v >= 1 /\ v <= 5)
RowChecks(row) ==
    /\ \A i \in 1..7 : ScoreCheck(ScoreOf(row)[i])
    /\ row.decision \in Decisions \cup {NullStr}

\* applicant_id ... REFERENCES urology_applicants(id)
ApplicantExists(a) == \E i \in DOMAIN applicants : applicants[i].id = a

\* UNIQUE(applicant_id, reviewer_name, site_name)
ReviewKeyFreeNoConstraint(a, r) == TRUE
ReviewKeyFree(a, r) == reviews[<<a, r>>] = <<>>

ReviewKeys == (ApplicantIds \cup {UnknownApplicant}) \X ReviewerNames

\* INSERT INTO urology_reviews: the table after it, or the table unchanged on an error.
CanInsertReview(a, r, row) ==
    ApplicantExists(a) /\ RowChecks(row) /\ ReviewKeyFree(a, r)
InsertedReview(a, r, row) ==
    [reviews EXCEPT ![<<a, r>>] = Append(@, row)]

\* .select().eq(applicant_id).eq(reviewer_name).single(): one row, or PGRST116.
SingleRow(rows) == Len(rows) = 1

\* the rows of one applicant, as getReviewsForApplicant returns them
ReviewsOfApplicant(a) ==
    LET perReviewer == [i \in 1..NumReviewers |-> reviews[<<a, i>>]]
        F[i \in 0..NumReviewers] ==
            IF i = 0 THEN <<>> ELSE F[i - 1] \o perReviewer[i]
    IN F[NumReviewers]

(***************************************************************************)
(* Table urology_final_selections and the statistics stored in it.         *)
(***************************************************************************)
\* parseFloat((sum / n).toFixed(2)), in hundredths
ToFixed2Truncates(sum, n) == (100 * sum) \div n
ToFixed2(sum, n) == (200 * sum + n) \div (2 * n)

AverageScore(rows) ==
    LET validScores == SelectSeq(rows, LAMBDA x : x.total_score # Null)
        totals == [i \in DOMAIN validScores |-> validScores[i].total_score]
    IN IF Len(validScores) > 0 THEN ToFixed2(SumSeq(totals), Len(validScores)) ELSE 0

ReviewerCountNeverZero(rows) == IF Len(rows) = 0 THEN 1 ELSE Len(rows)
ReviewerCount(rows) == Len(rows)

FinalSelectionRow(decision, reason, avg, cnt, decided) ==
    [admin_decision |-> decision, selection_reason |-> reason, average_score |-> avg,
     reviewer_count |-> cnt, decided_at |-> decided]

(***************************************************************************)
(* Backend requests.  A slot holds one request: its route, where it stands *)
(* (pc), its parameters, the locals of the service call and the response.  *)
(* wrote, sawExisting and failed record what the request did, again that   *)
(* it repeats the update the slot has just answered with success.          *)
(***************************************************************************)
EmptyBody == Body(Absent, Absent, Absent, Absent, Absent, Absent, Absent, AbsentStr, AbsentStr)

NoProgress == [completed |-> 0, total |-> 0]

Idle ==
    [kind |-> "idle", pc |-> "idle", a |-> 0, r |-> 0, body |-> EmptyBody,
     admin |-> AbsentStr, reason |-> AbsentStr, avg |-> 0, cnt |-> 0, existing |-> FALSE,
     status |-> 0, wrote |-> FALSE, sawExisting |-> FALSE, failed |-> FALSE,
     totalApplicants |-> 0, completedReviews |-> 0, progress |-> NoProgress, data |-> <<>>,
     again |-> FALSE, hasApplicants |-> FALSE, hasReviewers |-> FALSE]

Free(s) == req[s].pc \in {"idle", "done"}

\* a request is accepted while fewer than MaxWrites requests have changed the store
\* or may still do so
Budget == writes + Cardinality({t \in Slots : req[t].pc \notin {"idle", "done"}}) < MaxWrites

NewRequest(kind, a, r, b, pc) ==
    [Idle EXCEPT !.kind = kind, !.pc = pc, !.a = a, !.r = r, !.body = b]

Respond(q, status) == [q EXCEPT !.pc = "done", !.status = status]

\* res.status(201) for the POST routes, res.json (200) for PUT and DELETE
SuccessStatus(kind) == IF kind \in {"POST /reviews", "POST /final-selections"} THEN 201 ELSE 200

(***************************************************************************)
(* POST /api/reviews                                                       *)
(***************************************************************************)
\* if (!reviewData.applicant_id || !reviewData.reviewer_name) 400
PostReviewsValidated(a, r, b) ==
    IF a = 0 \/ r = 0
    THEN Respond(NewRequest("POST /reviews", a, r, b, "done"), 400)
    ELSE NewRequest("POST /reviews", a, r, b, "getReview")

PostReviews(s, a, r, b) ==
    /\ Free(s) /\ Budget
    /\ req' = [req EXCEPT ![s] = PostReviewsValidated(a, r, b)]
    /\ UNCHANGED <<applicants, reviewers, reviews, finalSelections, distribution, client, now,
                   writes, ui>>

\* const existing = await ReviewService.getReview(...); if (existing) 409
PostReviewsExisting(s) ==
    /\ req[s].kind = "POST /reviews" /\ req[s].pc = "getReview"
    /\ req' = [req EXCEPT ![s] =
                 IF SingleRow(reviews[<<@.a, @.r>>])
                 THEN Respond(@, 409)
                 ELSE [@ EXCEPT !.pc = "createReview"]]
    /\ UNCHANGED <<applicants, reviewers, reviews, finalSelections, distribution, client, now,
                   writes, ui>>

\* ReviewService.createReview: the insert; an error is rethrown and the route answers 500
createReview(s) ==
    /\ req[s].kind = "POST /reviews" /\ req[s].pc = "createReview"
    /\ LET q == req[s]
           row == NewRow(q.body)
           seen == reviews[<<q.a, q.r>>] # <<>>
       IN IF CanInsertReview(q.a, q.r, row)
          THEN /\ reviews' = InsertedReview(q.a, q.r, row)
               /\ writes' = writes + 1
               /\ req' = [req EXCEPT ![s] = [q EXCEPT !.pc = "statsReviews", !.wrote = TRUE,
                                                      !.sawExisting = seen]]
          ELSE /\ UNCHANGED <<reviews, writes, ui>>
               /\ req' = [req EXCEPT ![s] = Respond([q EXCEPT !.sawExisting = seen], 500)]
    /\ UNCHANGED <<applicants, reviewers, finalSelections, distribution, client, now, ui>>

(***************************************************************************)
(* PUT /api/reviews/:applicantId/:reviewerName                             *)
(***************************************************************************)
PutReviews(s, a, r, b) ==
    /\ Free(s) /\ Budget
    /\ req' = [req EXCEPT ![s] =
                 [NewRequest("PUT /reviews", a, r, b, "getReview")
                    EXCEPT !.again = (req[s].kind = "PUT /reviews" /\ req[s].status = 200
                                      /\ req[s].a = a /\ req[s].r = r /\ req[s].body = b)]]
    /\ UNCHANGED <<applicants, reviewers, reviews, finalSelections, distribution, client, now,
                   writes, ui>>

PutReviewsExisting(s) ==
    /\ req[s].kind = "PUT /reviews" /\ req[s].pc = "getReview"
    /\ req' = [req EXCEPT ![s] =
                 IF SingleRow(reviews[<<@.a, @.r>>])
                 THEN [@ EXCEPT !.pc = "updateReview"]
                 ELSE Respond(@, 404)]
    /\ UNCHANGED <<applicants, reviewers, reviews, finalSelections, distribution, client, now,
                   writes, ui>>

\* ReviewService.updateReview: .update(updates)...select().single()
updateReview(s) ==
    /\ req[s].kind = "PUT /reviews" /\ req[s].pc = "updateReview"
    /\ LET q == req[s]
           rows == reviews[<<q.a, q.r>>]
           patched == [i \in DOMAIN rows |-> PatchedRow(rows[i], q.body)]
       IN IF SingleRow(rows) /\ \A i \in DOMAIN patched : RowChecks(patched[i])
          THEN /\ reviews' = [reviews EXCEPT ![<<q.a, q.r>>] = patched]
               /\ writes' = writes + 1
               /\ req' = [req EXCEPT ![s] = [q EXCEPT !.pc = "statsReviews",
                                                      !.wrote = (patched # rows)]]
          ELSE /\ UNCHANGED <<reviews, writes, ui>>
               /\ req' = [req EXCEPT ![s] = Respond(q, 500)]
    /\ UNCHANGED <<applicants, reviewers, finalSelections, distribution, client, now, ui>>

(***************************************************************************)
(* DELETE /api/reviews/:applicantId/:reviewerName                          *)
(***************************************************************************)
DeleteReviews(s, a, r) ==
    /\ Free(s) /\ Budget
    /\ req' = [req EXCEPT ![s] = NewRequest("DELETE /reviews", a, r, EmptyBody, "getReview")]
    /\ UNCHANGED <<applicants, reviewers, reviews, finalSelections, distribution, client, now,
                   writes, ui>>

DeleteReviewsExistingDeletesAnyway(s) ==
    /\ req[s].kind = "DELETE /reviews" /\ req[s].pc = "getReview"
    /\ IF SingleRow(reviews[<<req[s].a, req[s].r>>])
       THEN /\ req' = [req EXCEPT ![s] = [@ EXCEPT !.pc = "deleteReview"]]
            /\ UNCHANGED finalSelections
       ELSE /\ finalSelections' =
                  IF req[s].a \in DOMAIN finalSelections \/ ~ApplicantExists(req[s].a)
                  THEN finalSelections
                  ELSE [x \in DOMAIN finalSelections \cup {req[s].a} |->
                          IF x = req[s].a
                          THEN FinalSelectionRow("Pending", NullStr, 0, 0, Null)
                          ELSE finalSelections[x]]
            /\ req' = [req EXCEPT ![s] =
                         Respond([@ EXCEPT !.wrote = (finalSelections' # finalSelections)], 404)]
    /\ UNCHANGED <<applicants, reviewers, reviews, distribution, client, now, writes, ui>>

DeleteReviewsExisting(s) ==
    /\ req[s].kind = "DELETE /reviews" /\ req[s].pc = "getReview"
    /\ req' = [req EXCEPT ![s] =
                 IF SingleRow(reviews[<<@.a, @.r>>])
                 THEN [@ EXCEPT !.pc = "deleteReview"]
                 ELSE Respond(@, 404)]
    /\ UNCHANGED <<applicants, reviewers, reviews, finalSelections, distribution, client, now,
                   writes, ui>>

\* ReviewService.deleteReview: .delete().eq(applicant_id).eq(reviewer_name)
deleteReview(s) ==
    /\ req[s].kind = "DELETE /reviews" /\ req[s].pc = "deleteReview"
    /\ LET q == req[s]
       IN /\ reviews' = [reviews EXCEPT ![<<q.a, q.r>>] = <<>>]
          /\ writes' = writes + 1
          /\ req' = [req EXCEPT ![s] = [q EXCEPT !.pc = "statsReviews",
                                                 !.wrote = (reviews[<<q.a, q.r>>] # <<>>)]]
    /\ UNCHANGED <<applicants, reviewers, finalSelections, distribution, client, now, ui>>

(***************************************************************************)
(* ReviewService.updateFinalSelectionStats, called after every review      *)
(* write: read the applicant's reviews, read its final selection, then     *)
(* update the row or insert one.  Every error is caught and dropped.       *)
(***************************************************************************)
InStats(s) == req[s].kind \in {"POST /reviews", "PUT /reviews", "DELETE /reviews"}

statsGetReviews(s) ==
    /\ InStats(s) /\ req[s].pc = "statsReviews"
    /\ LET rows == ReviewsOfApplicant(req[s].a)
       IN req' = [req EXCEPT ![s] = [@ EXCEPT !.pc = "statsSelection",
                                              !.avg = AverageScore(rows),
                                              !.cnt = ReviewerCount(rows)]]
    /\ UNCHANGED <<applicants, reviewers, reviews, finalSelections, distribution, client, now,
                   writes, ui>>

statsGetFinalSelection(s) ==
    /\ InStats(s) /\ req[s].pc = "statsSelection"
    /\ req' = [req EXCEPT ![s] = [@ EXCEPT !.pc = "statsWrite",
                                           !.existing = (req[s].a \in DOMAIN finalSelections)]]
    /\ UNCHANGED <<applicants, reviewers, reviews, finalSelections, distribution, client, now,
                   writes, ui>>

StatsWrittenResetsDecision(q) ==
    IF ApplicantExists(q.a)
    THEN [x \in DOMAIN finalSelections \cup {q.a} |->
             IF x = q.a THEN FinalSelectionRow("Pending", NullStr, q.avg, q.cnt, Null)
             ELSE finalSelections[x]]
    ELSE finalSelections

\* the result of the update / insert is not looked at: an error changes nothing
StatsWritten(q) ==
    IF q.existing
    THEN IF q.a \in DOMAIN finalSelections
         THEN [finalSelections EXCEPT ![q.a] =
                  [@ EXCEPT !.average_score = q.avg, !.reviewer_count = q.cnt]]
         ELSE finalSelections
    ELSE IF q.a \notin DOMAIN finalSelections /\ ApplicantExists(q.a)
         THEN [x \in DOMAIN finalSelections \cup {q.a} |->
                  IF x = q.a
                  THEN FinalSelectionRow("Pending", NullStr, q.avg, q.cnt, Null)
                  ELSE finalSelections[x]]
         ELSE finalSelections

statsWrite(s) ==
    /\ InStats(s) /\ req[s].pc = "statsWrite"
    /\ finalSelections' = StatsWritten(req[s])
    /\ req' = [req EXCEPT ![s] =
                 Respond([@ EXCEPT !.wrote = @ \/ finalSelections' # finalSelections],
                         SuccessStatus(@.kind))]
    /\ UNCHANGED <<applicants, reviewers, reviews, distribution, client, now, writes, ui>>

\* catch (err) { console.error(...); /* Don't throw here */ }: the caller goes on
StatsErrorRethrown(q) == Respond([q EXCEPT !.failed = TRUE], 500)
StatsErrorCaught(q) == Respond([q EXCEPT !.failed = TRUE], SuccessStatus(q.kind))

\* getReviewsForApplicant throws (the store answers with an error)
statsGetReviewsFails(s) ==
    /\ InStats(s) /\ req[s].pc = "statsReviews"
    /\ req' = [req EXCEPT ![s] = StatsErrorCaught(@)]
    /\ UNCHANGED <<applicants, reviewers, reviews, finalSelections, distribution, client, now,
                   writes, ui>>

\* getFinalSelection throws (an error other than PGRST116)
statsGetFinalSelectionFails(s) ==
    /\ InStats(s) /\ req[s].pc = "statsSelection"
    /\ req' = [req EXCEPT ![s] = StatsErrorCaught(@)]
    /\ UNCHANGED <<applicants, reviewers, reviews, finalSelections, distribution, client, now,
                   writes, ui>>

\* the update / insert of the final selection fails: its { error } is never read
statsWriteFails(s) ==
    /\ InStats(s) /\ req[s].pc = "statsWrite"
    /\ req' = [req EXCEPT ![s] = Respond([@ EXCEPT !.failed = TRUE], SuccessStatus(@.kind))]
    /\ UNCHANGED <<applicants, reviewers, reviews, finalSelections, distribution, client, now,
                   writes, ui>>

(***************************************************************************)
(* POST /api/reviews/final-selections and ReviewService.upsertFinalSelection *)
(***************************************************************************)
PostFinalSelectionsValidated(a, decision, reason) ==
    LET q == [NewRequest("POST /final-selections", a, 0, EmptyBody, "upsertReviews")
                EXCEPT !.admin = decision, !.reason = reason]
    IN IF a = 0 \/ decision = AbsentStr THEN Respond(q, 400)
       ELSE IF decision \notin AdminDecisions THEN Respond(q, 400)
       ELSE q

PostFinalSelections(s, a, decision, reason) ==
    /\ Free(s) /\ Budget
    /\ req' = [req EXCEPT ![s] = PostFinalSelectionsValidated(a, decision, reason)]
    /\ UNCHANGED <<applicants, reviewers, reviews, finalSelections, distribution, client, now,
                   writes, ui>>

upsertGetReviews(s) ==
    /\ req[s].kind = "POST /final-selections" /\ req[s].pc = "upsertReviews"
    /\ LET rows == ReviewsOfApplicant(req[s].a)
       IN req' = [req EXCEPT ![s] = [@ EXCEPT !.pc = "upsert",
                                              !.avg = AverageScore(rows),
                                              !.cnt = ReviewerCount(rows)]]
    /\ UNCHANGED <<applicants, reviewers, reviews, finalSelections, distribution, client, now,
                   writes, ui>>

\* decided_at: selection.admin_decision !== 'Pending' ? new Date().toISOString() : null
DecidedAt(decision) == IF decision # "Pending" THEN now + 1 ELSE Null

\* .upsert([...], {onConflict: 'applicant_id,site_name'}): a key the body does not
\* carry (selection_reason undefined) keeps the stored value, or NULL in a new row.
Upserted(q) ==
    LET old == IF q.a \in DOMAIN finalSelections
               THEN finalSelections[q.a].selection_reason ELSE NullStr
        row == FinalSelectionRow(q.admin, UpdateStr(old, q.reason), q.avg, q.cnt,
                                 DecidedAt(q.admin))
    IN [x \in DOMAIN finalSelections \cup {q.a} |->
          IF x = q.a THEN row ELSE finalSelections[x]]

upsertFinalSelection(s) ==
    /\ req[s].kind = "POST /final-selections" /\ req[s].pc = "upsert"
    /\ LET q == req[s]
       IN IF ApplicantExists(q.a)
          THEN /\ finalSelections' = Upserted(q)
               /\ now' = now + 1
               /\ writes' = writes + 1
               /\ req' = [req EXCEPT ![s] = Respond([q EXCEPT !.wrote = TRUE], 201)]
          ELSE /\ UNCHANGED <<finalSelections, now, writes, ui>>
               /\ req' = [req EXCEPT ![s] = Respond(q, 500)]
    /\ UNCHANGED <<applicants, reviewers, reviews, distribution, client, ui>>

(***************************************************************************)
(* DELETE /api/applicants/:id                                              *)
(***************************************************************************)
DeleteApplicants(s, a) ==
    /\ Free(s) /\ Budget
    /\ req' = [req EXCEPT ![s] = NewRequest("DELETE /applicants", a, 0, EmptyBody,
                                            "getApplicantById")]
    /\ UNCHANGED <<applicants, reviewers, reviews, finalSelections, distribution, client, now,
                   writes, ui>>

\* const existing = await ApplicantService.getApplicantById(id); if (!existing) 404
DeleteApplicantsExisting(s) ==
    /\ req[s].kind = "DELETE /applicants" /\ req[s].pc = "getApplicantById"
    /\ req' = [req EXCEPT ![s] =
                 IF ApplicantExists(@.a) THEN [@ EXCEPT !.pc = "deleteApplicant"]
                 ELSE Respond(@, 404)]
    /\ UNCHANGED <<applicants, reviewers, reviews, finalSelections, distribution, client, now,
                   writes, ui>>

\* applicant_id ... REFERENCES urology_applicants(id) ON DELETE CASCADE, on both tables
CascadedReviewsKeepsRows(a) == reviews
CascadedReviews(a) == [k \in DOMAIN reviews |-> IF k[1] = a THEN <<>> ELSE reviews[k]]
CascadedFinalSelections(a) ==
    [x \in DOMAIN finalSelections \ {a} |-> finalSelections[x]]

\* ApplicantService.deleteApplicant: a delete that matches no row is no error
deleteApplicant(s) ==
    /\ req[s].kind = "DELETE /applicants" /\ req[s].pc = "deleteApplicant"
    /\ LET q == req[s]
       IN /\ applicants' = SelectSeq(applicants, LAMBDA row : row.id # q.a)
          /\ reviews' = CascadedReviews(q.a)
          /\ finalSelections' = CascadedFinalSelections(q.a)
          /\ writes' = writes + 1
          /\ req' = [req EXCEPT ![s] =
                       Respond([q EXCEPT !.wrote = ApplicantExists(q.a),
                                         !.cnt = Len(ReviewsOfApplicant(q.a)),
                                         !.existing = (q.a \in DOMAIN finalSelections)], 200)]
    /\ UNCHANGED <<reviewers, distribution, client, now, ui>>

(***************************************************************************)
(* DELETE /api/reviewers/:id                                               *)
(***************************************************************************)
DeleteReviewers(s, r) ==
    /\ Free(s)
    /\ req' = [req EXCEPT ![s] = NewRequest("DELETE /reviewers", 0, r, EmptyBody,
                                            "getReviewerById")]
    /\ UNCHANGED <<applicants, reviewers, reviews, finalSelections, distribution, client, now,
                   writes, ui>>

\* const existing = await ReviewerService.getReviewerById(id); if (!existing) 404
DeleteReviewersExisting(s) ==
    /\ req[s].kind = "DELETE /reviewers" /\ req[s].pc = "getReviewerById"
    /\ req' = [req EXCEPT ![s] =
                 IF req[s].r \in Range(reviewers) THEN [@ EXCEPT !.pc = "deleteReviewer"]
                 ELSE Respond(@, 404)]
    /\ UNCHANGED <<applicants, reviewers, reviews, finalSelections, distribution, client, now,
                   writes, ui>>

\* ReviewerService.deleteReviewer: urology_reviews.reviewer_name references nothing, so
\* the reviews of the reviewer stay
deleteReviewer(s) ==
    /\ req[s].kind = "DELETE /reviewers" /\ req[s].pc = "deleteReviewer"
    /\ reviewers' = SelectSeq(reviewers, LAMBDA name : name # req[s].r)
    /\ req' = [req EXCEPT ![s] = Respond([@ EXCEPT !.wrote = TRUE], 200)]
    /\ UNCHANGED <<applicants, reviews, finalSelections, distribution, client, now, writes, ui>>

(***************************************************************************)
(* GET /api/reviews?applicant_id=..&reviewer_name=..                       *)
(***************************************************************************)
\* again: the request directly follows the create of the same pair, answered 201 in the
\* slot; body then holds what that create submitted
GetReviewsByPair(s, a, r) ==
    /\ Free(s)
    /\ LET follows == /\ req[s].kind = "POST /reviews" /\ req[s].status = 201
                      /\ req[s].a = a /\ req[s].r = r
       IN req' = [req EXCEPT ![s] =
                    [NewRequest("GET /reviews", a, r,
                                IF follows THEN req[s].body ELSE EmptyBody, "getReview")
                       EXCEPT !.again = follows]]
    /\ UNCHANGED <<applicants, reviewers, reviews, finalSelections, distribution, client, now,
                   writes, ui>>

\* const review = await ReviewService.getReview(...); if (!review) 404; res.json(review)
GetReviewsFound(s) ==
    /\ req[s].kind = "GET /reviews" /\ req[s].pc = "getReview"
    /\ req' = [req EXCEPT ![s] =
                 IF SingleRow(reviews[<<@.a, @.r>>])
                 THEN Respond([@ EXCEPT !.data = reviews[<<req[s].a, req[s].r>>]], 200)
                 ELSE Respond(@, 404)]
    /\ UNCHANGED <<applicants, reviewers, reviews, finalSelections, distribution, client, now,
                   writes, ui>>

(***************************************************************************)
(* GET /api/progress/overall: ProgressService.getOverallProgress, three    *)
(* count queries one after the other.                                      *)
(***************************************************************************)
\* .from('urology_reviews').select('*', { count: 'exact' }).not('decision', 'is', null)
HasDecision(row) == row.decision # NullStr

RECURSIVE CountAll(_)
CountAll(keys) ==
    IF keys = {} THEN 0
    ELSE LET k == CHOOSE x \in keys : TRUE
         IN Len(reviews[k]) + CountAll(keys \ {k})

RECURSIVE CountDecided(_)
CountDecided(keys) ==
    IF keys = {} THEN 0
    ELSE LET k == CHOOSE x \in keys : TRUE
         IN Len(SelectSeq(reviews[k], HasDecision)) + CountDecided(keys \ {k})

CompletedReviewsCountsRows == CountAll(DOMAIN reviews)
CompletedReviews == CountDecided(DOMAIN reviews)

getOverallProgress(s) ==
    /\ Free(s)
    /\ req' = [req EXCEPT ![s] = [Idle EXCEPT !.kind = "GET /progress/overall",
                                              !.pc = "countApplicants"]]
    /\ UNCHANGED <<applicants, reviewers, reviews, finalSelections, distribution, client, now,
                   writes, ui>>

progressCountApplicants(s) ==
    /\ req[s].kind = "GET /progress/overall" /\ req[s].pc = "countApplicants"
    /\ req' = [req EXCEPT ![s] = [@ EXCEPT !.pc = "countReviews",
                                           !.totalApplicants = Len(applicants)]]
    /\ UNCHANGED <<applicants, reviewers, reviews, finalSelections, distribution, client, now,
                   writes, ui>>

progressCountReviews(s) ==
    /\ req[s].kind = "GET /progress/overall" /\ req[s].pc = "countReviews"
    /\ req' = [req EXCEPT ![s] = [@ EXCEPT !.pc = "countReviewers",
                                           !.completedReviews = CompletedReviews]]
    /\ UNCHANGED <<applicants, reviewers, reviews, finalSelections, distribution, client, now,
                   writes, ui>>

\* totalExpectedReviews = (totalApplicants || 0) * (totalReviewers || 0)
progressCountReviewers(s) ==
    /\ req[s].kind = "GET /progress/overall" /\ req[s].pc = "countReviewers"
    /\ LET totalReviewers == Len(reviewers)
           totalExpectedReviews == OrZero(req[s].totalApplicants) * OrZero(totalReviewers)
       IN req' = [req EXCEPT ![s] =
                     Respond([@ EXCEPT !.progress = [completed |-> OrZero(req[s].completedReviews),
                                                     total |-> totalExpectedReviews]], 200)]
    /\ UNCHANGED <<applicants, reviewers, reviews, finalSelections, distribution, client, now,
                   writes, ui>>

(***************************************************************************)
(* GET /api/progress/stats and ProgressService.getDashboardSummary.        *)
(* NaN and Infinity are the JavaScript numbers of these names.             *)
(***************************************************************************)
NaN == -3
Infinity == -4

\* x / y of two counts, times 100, through Math.round (half up); x / 0 is not an error
RoundedPercent(x, y) ==
    IF y = 0 THEN (IF x = 0 THEN NaN ELSE Infinity)
    ELSE (200 * x + y) \div (2 * y)

NoStats == [totalApplicants |-> 0, totalReviewers |-> 0, completedReviews |-> 0,
            pendingReviews |-> 0, finalizedDecisions |-> 0,
            completionRate |-> 0, decisionRate |-> 0]

GetProgressStats(s) ==
    /\ Free(s)
    /\ req' = [req EXCEPT ![s] = [Idle EXCEPT !.kind = "GET /progress/stats",
                                              !.pc = "getDashboardSummary",
                                              !.data = NoStats]]
    /\ UNCHANGED <<applicants, reviewers, reviews, finalSelections, distribution, client, now,
                   writes, ui>>

\* the four counts, expectedTotalReviews and pendingReviews = Math.max(0, ...)
getDashboardSummary(s) ==
    /\ req[s].kind = "GET /progress/stats" /\ req[s].pc = "getDashboardSummary"
    /\ LET totalApplicants == Len(applicants)
           totalReviewers == Len(reviewers)
           finalizedDecisions ==
               Cardinality({a \in DOMAIN finalSelections :
                               finalSelections[a].admin_decision # "Pending"})
           expectedTotalReviews == OrZero(totalApplicants) * OrZero(totalReviewers)
           pending == expectedTotalReviews - OrZero(CompletedReviews)
       IN req' = [req EXCEPT ![s] =
                    [@ EXCEPT !.pc = "stats",
                              !.data = [NoStats EXCEPT
                                  !.totalApplicants = OrZero(totalApplicants),
                                  !.totalReviewers = OrZero(totalReviewers),
                                  !.completedReviews = OrZero(CompletedReviews),
                                  !.pendingReviews = IF pending < 0 THEN 0 ELSE pending,
                                  !.finalizedDecisions = OrZero(finalizedDecisions)]]]
    /\ UNCHANGED <<applicants, reviewers, reviews, finalSelections, distribution, client, now,
                   writes, ui>>

\* completionRate and decisionRate: dashboard.totalApplicants > 0 ? Math.round(...) : 0
progressStats(s) ==
    /\ req[s].kind = "GET /progress/stats" /\ req[s].pc = "stats"
    /\ LET dashboard == req[s].data
       IN req' = [req EXCEPT ![s] =
                    Respond([@ EXCEPT !.data =
                        [dashboard EXCEPT
                            !.completionRate =
                                IF dashboard.totalApplicants > 0
                                THEN RoundedPercent(dashboard.completedReviews,
                                         dashboard.totalApplicants * dashboard.totalReviewers)
                                ELSE 0,
                            !.decisionRate =
                                IF dashboard.totalApplicants > 0
                                THEN RoundedPercent(dashboard.finalizedDecisions,
                                                    dashboard.totalApplicants)
                                ELSE 0]], 200)]
    /\ UNCHANGED <<applicants, reviewers, reviews, finalSelections, distribution, client, now,
                   writes, ui>>

(***************************************************************************)
(* The backend: the store as setup-database leaves it with NumApplicants   *)
(* applicants (the last one i-sub) and NumReviewers reviewers, no reviews. *)
(***************************************************************************)
ApplicantRow(i, category) == [id |-> i, category |-> category]

ClientIdle == [pc |-> "idle", a |-> 0, r |-> 0, body |-> EmptyBody, attempt |-> 0,
               ok |-> FALSE, existed |-> FALSE, putTried |-> FALSE]

\* one call of the hook's saveReview or saveFinalSelection; stamp and loading are
\* lastFetch.progress and progressLoading as the closure of the call captured them
UiProcIdle == [kind |-> "none", pc |-> "idle", a |-> 0, r |-> 0, body |-> EmptyBody,
               decision |-> AbsentStr, attempt |-> 0, ok |-> FALSE, putTried |-> FALSE,
               stamp |-> 0, loading |-> FALSE, refreshed |-> FALSE]

\* useState([]) ... of useApiData and the component before its first effect
UiIdle == [reviews |-> [json |-> "array", items |-> <<>>], broken |-> FALSE,
           timeouts |-> {}, timers |-> <<>>, edits |-> <<>>,
           procs |-> [s \in Slots |-> UiProcIdle],
           lastFetch |-> 0, expired |-> 0, progressLoading |-> FALSE, fetching |-> 0,
           progress |-> Null, mounted |-> FALSE]

InitStore(nReviewers) ==
    /\ applicants = [i \in 1..NumApplicants |->
                       ApplicantRow(i, IF i = NumApplicants /\ i > 1 THEN "i-sub" ELSE "regular")]
    /\ reviewers = [i \in 1..nReviewers |-> i]
    /\ reviews = [k \in ReviewKeys |-> <<>>]
    /\ finalSelections = <<>>
    /\ req = [s \in Slots |-> Idle]
    /\ distribution = <<>>
    /\ client = ClientIdle
    /\ now = 0
    /\ writes = 0
    /\ ui = UiIdle

\* The requests the environment sends: every (applicant, reviewer) pair of the
\* store, and one request for each way of naming nothing or an unknown applicant.
StorePairs == ApplicantIds \X Range(reviewers)
PostInputs ==
    (StorePairs \X {Body28, Body20, BodyPartial, BodyHigh})
    \cup {<<<<0, 1>>, Body28>>, <<<<1, 0>>, Body28>>, <<<<UnknownApplicant, 1>>, Body28>>}
PutInputs ==
    (StorePairs \X {Body20, BodyPartial, BodyHigh}) \cup {<<<<UnknownApplicant, 1>>, Body20>>}
DeleteInputs == StorePairs \cup {<<UnknownApplicant, 1>>}
SelectionInputs ==
    (ApplicantIds \X {"Selected", "Not Selected"} \X {AbsentStr})
    \cup {<<1, "Pending", "reason">>, <<0, "Selected", AbsentStr>>, <<1, AbsentStr, AbsentStr>>,
          <<1, "interview", AbsentStr>>, <<UnknownApplicant, "Selected", AbsentStr>>}

\* The requests of the interleaved runs: the reviewers' requests for applicant 1.
RacePairs == {1} \X Range(reviewers)
RacePostInputs == (RacePairs \X {Body28, Body20}) \cup {<<<<1, 0>>, Body28>>}
RacePutInputs == RacePairs \X {BodyPartial}
RaceDeleteInputs == RacePairs
RaceSelectionInputs == {<<1, "Selected", AbsentStr>>, <<1, "interview", AbsentStr>>}

\* requests handled one at a time, in slot 1
SeqInit == InitStore(NumReviewers)
SeqNext ==
    \/ \E i \in PostInputs : PostReviews(1, i[1][1], i[1][2], i[2])
    \/ PostReviewsExisting(1)
    \/ createReview(1)
    \/ \E i \in PutInputs : PutReviews(1, i[1][1], i[1][2], i[2])
    \/ PutReviewsExisting(1)
    \/ updateReview(1)
    \/ \E i \in DeleteInputs : DeleteReviews(1, i[1], i[2])
    \/ DeleteReviewsExisting(1)
    \/ deleteReview(1)
    \/ statsGetReviews(1)
    \/ statsGetFinalSelection(1)
    \/ statsWrite(1)
    \/ \E i \in SelectionInputs : PostFinalSelections(1, i[1], i[2], i[3])
    \/ upsertGetReviews(1)
    \/ upsertFinalSelection(1)
SeqSpec == SeqInit /\ [][SeqNext]_vars

\* requests handled one at a time, any store call of the recompute may fail
FaultNext ==
    \/ SeqNext
    \/ statsGetReviewsFails(1)
    \/ statsGetFinalSelectionFails(1)
    \/ statsWriteFails(1)
FaultSpec == SeqInit /\ [][FaultNext]_vars

\* requests handled one at a time, the progress request among them
ProgressNext ==
    \/ SeqNext
    \/ getOverallProgress(1)
    \/ progressCountApplicants(1)
    \/ progressCountReviews(1)
    \/ progressCountReviewers(1)
ProgressSpec == SeqInit /\ [][ProgressNext]_vars

\* review creates, reviewer deletes and progress requests, one at a time
TotalsNext ==
    \/ \E p \in StorePairs, b \in {Body28, BodyPartial} : PostReviews(1, p[1], p[2], b)
    \/ PostReviewsExisting(1)
    \/ createReview(1)
    \/ statsGetReviews(1)
    \/ statsGetFinalSelection(1)
    \/ statsWrite(1)
    \/ \E r \in ReviewerNames : DeleteReviewers(1, r)
    \/ DeleteReviewersExisting(1)
    \/ deleteReviewer(1)
    \/ getOverallProgress(1)
    \/ progressCountApplicants(1)
    \/ progressCountReviews(1)
    \/ progressCountReviewers(1)
    \/ GetProgressStats(1)
    \/ getDashboardSummary(1)
    \/ progressStats(1)
TotalsSpec == SeqInit /\ [][TotalsNext]_vars

\* requests handled one at a time, the fetch of one review among them
FetchNext ==
    \/ SeqNext
    \/ \E p \in StorePairs \cup {<<UnknownApplicant, 1>>} : GetReviewsByPair(1, p[1], p[2])
    \/ GetReviewsFound(1)
FetchSpec == SeqInit /\ [][FetchNext]_vars

\* up to MaxInflight requests interleaved at their store calls
Init == InitStore(NumReviewers - 1)
Next ==
    \/ \E s \in Slots, i \in RacePostInputs : PostReviews(s, i[1][1], i[1][2], i[2])
    \/ \E s \in Slots : PostReviewsExisting(s)
    \/ \E s \in Slots : createReview(s)
    \/ \E s \in Slots, i \in RacePutInputs : PutReviews(s, i[1][1], i[1][2], i[2])
    \/ \E s \in Slots : PutReviewsExisting(s)
    \/ \E s \in Slots : updateReview(s)
    \/ \E s \in Slots, i \in RaceDeleteInputs : DeleteReviews(s, i[1], i[2])
    \/ \E s \in Slots : DeleteReviewsExisting(s)
    \/ \E s \in Slots : deleteReview(s)
    \/ \E s \in Slots : statsGetReviews(s)
    \/ \E s \in Slots : statsGetFinalSelection(s)
    \/ \E s \in Slots : statsWrite(s)
    \/ \E s \in Slots, i \in RaceSelectionInputs : PostFinalSelections(s, i[1], i[2], i[3])
    \/ \E s \in Slots : upsertGetReviews(s)
    \/ \E s \in Slots : upsertFinalSelection(s)
Spec == Init /\ [][Next]_vars

\* the same, review requests only
RaceNext ==
    \/ \E s \in Slots, i \in RacePostInputs : PostReviews(s, i[1][1], i[1][2], i[2])
    \/ \E s \in Slots : PostReviewsExisting(s)
    \/ \E s \in Slots : createReview(s)
    \/ \E s \in Slots, i \in RacePutInputs : PutReviews(s, i[1][1], i[1][2], i[2])
    \/ \E s \in Slots : PutReviewsExisting(s)
    \/ \E s \in Slots : updateReview(s)
    \/ \E s \in Slots, i \in RaceDeleteInputs : DeleteReviews(s, i[1], i[2])
    \/ \E s \in Slots : DeleteReviewsExisting(s)
    \/ \E s \in Slots : deleteReview(s)
    \/ \E s \in Slots : statsGetReviews(s)
    \/ \E s \in Slots : statsGetFinalSelection(s)
    \/ \E s \in Slots : statsWrite(s)
RaceSpec == Init /\ [][RaceNext]_vars

\* the interleaved requests with the deletion of applicants among them
CascadeNext ==
    \/ Next
    \/ \E s \in Slots, a \in {1, UnknownApplicant} : DeleteApplicants(s, a)
    \/ \E s \in Slots : DeleteApplicantsExisting(s)
    \/ \E s \in Slots : deleteApplicant(s)
CascadeSpec == Init /\ [][CascadeNext]_vars

(***************************************************************************)
(* Applicant distribution: ApplicantService.getApplicantDistribution and   *)
(* the seeder's distributeApplicantsToReviewers.  The store holds up to    *)
(* MaxDistApplicants applicants of either category and up to               *)
(* MaxDistReviewers reviewers.                                             *)
(***************************************************************************)
MaxDistApplicants == 4
MaxDistReviewers == 3
MaxCalls == 2
MaxSeedRuns == 2

Categories == {"regular", "i-sub"}

\* frontendApplicants.filter(app => app[2] === 'regular')
regularApplicantsKeepsAll(apps) == apps
regularApplicants(apps) == SelectSeq(apps, LAMBDA app : app.category = "regular")

\* regularApplicants.filter((_, appIndex) => appIndex % reviewers.length === index)
RoundRobinSlicePairs(regular, n, index) ==
    LET F[i \in 0..Len(regular)] ==
            IF i = 0 THEN <<>>
            ELSE IF ((i - 1) \div 2) % n = index THEN Append(F[i - 1], regular[i])
                 ELSE F[i - 1]
    IN F[Len(regular)]
RoundRobinSliceUpTo(regular, n, index) ==
    LET F[i \in 0..Len(regular)] ==
            IF i = 0 THEN <<>>
            ELSE IF (i - 1) % n <= index THEN Append(F[i - 1], regular[i]) ELSE F[i - 1]
    IN F[Len(regular)]
RoundRobinSlice(regular, n, index) ==
    LET F[i \in 0..Len(regular)] ==
            IF i = 0 THEN <<>>
            ELSE IF (i - 1) % n = index THEN Append(F[i - 1], regular[i]) ELSE F[i - 1]
    IN F[Len(regular)]

\* reviewers.forEach((reviewer, index) => distribution[reviewer.name] = ...): a later
\* assignment to the same key replaces an earlier one
DistributionMapBackwards(apps, order) ==
    LET regular == regularApplicants(apps)
        n == Len(order)
        LastIndex(name) == CHOOSE i \in 1..n :
                               order[i] = name /\ \A j \in (i + 1)..n : order[j] # name
    IN IF n > 0 /\ Len(regular) > 0
       THEN [name \in Range(order) |-> RoundRobinSlice(regular, n, n - LastIndex(name))]
       ELSE <<>>
DistributionMap(apps, order) ==
    LET regular == regularApplicants(apps)
        n == Len(order)
        LastIndex(name) == CHOOSE i \in 1..n :
                               order[i] = name /\ \A j \in (i + 1)..n : order[j] # name
    IN IF n > 0 /\ Len(regular) > 0
       THEN [name \in Range(order) |-> RoundRobinSlice(regular, n, LastIndex(name) - 1)]
       ELSE <<>>

\* one call: applicants in name order, reviewers in the order the store returns them
getApplicantDistribution ==
    /\ Len(distribution) < MaxCalls
    /\ \E order \in SeqPermutations(reviewers) :
           distribution' = Append(distribution,
                                  [reviewers |-> order, map |-> DistributionMap(applicants, order)])
    /\ UNCHANGED <<applicants, reviewers, reviews, finalSelections, req, client, now, writes, ui>>

\* applicants.filter(applicant => applicant.category === 'regular')
seederRegularApplicants(apps) == SelectSeq(apps, LAMBDA app : app.category = "regular")

\* the placeholder reviews of the seeder: regularApplicants[i] goes to reviewers[i % length]
sampleReviews(apps, revs) ==
    LET regular == seederRegularApplicants(apps)
    IN [i \in 1..Len(regular) |-> <<regular[i].id, revs[((i - 1) % Len(revs)) + 1]>>]

SeederCall(inserted, thrown) ==
    [Idle EXCEPT !.kind = "distributeApplicantsToReviewers", !.pc = "done",
                 !.wrote = inserted, !.failed = thrown]

\* both tables are read without ORDER BY; the placeholders go in with one INSERT, which
\* the UNIQUE constraint rejects as a whole.  The seeder is run until it has inserted
\* MaxSeedRuns times.
distributeApplicantsToReviewers ==
    /\ writes < MaxSeedRuns
    /\ \E apps \in SeqPermutations(applicants), revs \in SeqPermutations(reviewers) :
           IF Len(apps) = 0 \/ Len(revs) = 0
           THEN /\ req' = [req EXCEPT ![1] = SeederCall(FALSE, FALSE)]
                /\ UNCHANGED <<reviews, writes, ui>>
           ELSE LET sample == sampleReviews(apps, revs)
                IN IF Len(sample) = 0
                   THEN /\ req' = [req EXCEPT ![1] = SeederCall(FALSE, FALSE)]
                        /\ UNCHANGED <<reviews, writes, ui>>
                   ELSE IF \A i \in DOMAIN sample : ReviewKeyFree(sample[i][1], sample[i][2])
                   THEN /\ reviews' = [k \in DOMAIN reviews |->
                                          IF k \in Range(sample) THEN <<NewRow(EmptyBody)>>
                                          ELSE reviews[k]]
                        /\ writes' = writes + 1
                        /\ req' = [req EXCEPT ![1] = SeederCall(TRUE, FALSE)]
                   ELSE /\ req' = [req EXCEPT ![1] = SeederCall(FALSE, TRUE)]
                        /\ UNCHANGED <<reviews, writes, ui>>
    /\ UNCHANGED <<applicants, reviewers, finalSelections, distribution, client, now, ui>>

\* every applicant list (in name order) and every reviewer list within the bounds
DistStore(maxApplicants) ==
    /\ \E n \in 0..maxApplicants : \E cats \in [1..n -> Categories] :
           applicants = [i \in 1..n |-> ApplicantRow(i, cats[i])]
    /\ \E m \in 0..MaxDistReviewers : reviewers = [i \in 1..m |-> i]
    /\ reviews = [k \in (1..MaxDistApplicants) \X (1..MaxDistReviewers) |-> <<>>]
    /\ finalSelections = <<>>
    /\ req = [s \in Slots |-> Idle]
    /\ distribution = <<>>
    /\ client = ClientIdle
    /\ now = 0
    /\ writes = 0
    /\ ui = UiIdle
DistInit == DistStore(MaxDistApplicants)
DistNext ==
    \/ getApplicantDistribution
    \/ distributeApplicantsToReviewers
DistSpec == DistInit /\ [][DistNext]_vars

\* the distribution alone, over longer applicant lists
MaxMapApplicants == 7
MapInit == DistStore(MaxMapApplicants)
MapNext == getApplicantDistribution
MapSpec == MapInit /\ [][MapNext]_vars

(***************************************************************************)
(* DataSeeder.seedAll, on a store that starts empty.  The sample data is   *)
(* NumSeedApplicants applicants, the first of them i-sub, and              *)
(* NumSeedReviewers reviewers.                                             *)
(***************************************************************************)
NumSeedApplicants == 7
NumSeedReviewers == 2
SampleLimit == 10
SampleSlice == 5

sampleApplicants ==
    [i \in 1..NumSeedApplicants |-> ApplicantRow(i, IF i = 1 THEN "i-sub" ELSE "regular")]
sampleReviewers == [i \in 1..NumSeedReviewers |-> i]
sampleScores ==
    <<Body(4, 3, 5, 4, 5, 3, 4, "Sample review notes for applicant - definitely interview.",
           "Definitely Interview"),
      Body(3, 4, 3, 3, 4, 4, 3, "Sample review notes for applicant - maybe.", "Maybe"),
      Body(2, 2, 2, 2, 3, 2, 2, "Sample review notes for applicant - do not interview.", "Do Not Interview"),
      Body(5, 4, 4, 5, 5, 5, 5, "Sample review notes for applicant - definitely interview.",
           "Definitely Interview"),
      Body(3, 3, 3, 3, 3, 3, 3, "Sample review notes for applicant - maybe.", "Maybe")>>

Min(m, n) == IF m < n THEN m ELSE n

\* again: the run starts on the store a run of seedAll has just populated
seedAll ==
    /\ Free(1)
    /\ req' = [req EXCEPT ![1] =
                 [Idle EXCEPT !.kind = "seedAll", !.pc = "isDataSeeded",
                              !.again = (req[1].kind = "seedAll" /\ req[1].pc = "done"
                                         /\ ~req[1].failed)]]
    /\ UNCHANGED <<applicants, reviewers, reviews, finalSelections, distribution, client, now,
                   writes, ui>>

isDataSeeded ==
    /\ req[1].kind = "seedAll" /\ req[1].pc = "isDataSeeded"
    /\ req' = [req EXCEPT ![1] = [@ EXCEPT !.pc = "applicants",
                                           !.hasApplicants = Len(applicants) > 0,
                                           !.hasReviewers = Len(reviewers) > 0]]
    /\ UNCHANGED <<applicants, reviewers, reviews, finalSelections, distribution, client, now,
                   writes, ui>>

\* seedApplicants: one INSERT, rejected as a whole by UNIQUE(external_id, site_name)
seedApplicantsAlways(q) == FALSE
seedApplicantsSkipped(q) == q.hasApplicants
seedApplicants ==
    /\ req[1].kind = "seedAll" /\ req[1].pc = "applicants"
    /\ LET q == req[1]
       IN IF seedApplicantsSkipped(q)
          THEN /\ req' = [req EXCEPT ![1] = [q EXCEPT !.pc = "reviewers"]]
               /\ UNCHANGED applicants
          ELSE IF \A i \in DOMAIN sampleApplicants : ~ApplicantExists(sampleApplicants[i].id)
          THEN /\ applicants' = applicants \o sampleApplicants
               /\ req' = [req EXCEPT ![1] = [q EXCEPT !.pc = "reviewers", !.wrote = TRUE]]
          ELSE /\ req' = [req EXCEPT ![1] = [q EXCEPT !.pc = "done", !.failed = TRUE]]
               /\ UNCHANGED applicants
    /\ UNCHANGED <<reviewers, reviews, finalSelections, distribution, client, now, writes, ui>>

\* seedReviewers: one INSERT, rejected as a whole by UNIQUE(name)
seedReviewers ==
    /\ req[1].kind = "seedAll" /\ req[1].pc = "reviewers"
    /\ LET q == req[1]
       IN IF q.hasReviewers
          THEN /\ req' = [req EXCEPT ![1] = [q EXCEPT !.pc = "assignments"]]
               /\ UNCHANGED reviewers
          ELSE IF Range(sampleReviewers) \cap Range(reviewers) = {}
          THEN /\ reviewers' = reviewers \o sampleReviewers
               /\ req' = [req EXCEPT ![1] = [q EXCEPT !.pc = "assignments", !.wrote = TRUE]]
          ELSE /\ req' = [req EXCEPT ![1] = [q EXCEPT !.pc = "done", !.failed = TRUE]]
               /\ UNCHANGED reviewers
    /\ UNCHANGED <<applicants, reviews, finalSelections, distribution, client, now, writes, ui>>

\* if (!assignmentCount || assignmentCount === 0) distribute and seed sample scores
seedAllAssignments ==
    /\ req[1].kind = "seedAll" /\ req[1].pc = "assignments"
    /\ req' = [req EXCEPT ![1] =
                 IF CountAll(DOMAIN reviews) = 0 THEN [@ EXCEPT !.pc = "distribute"]
                 ELSE [@ EXCEPT !.pc = "done"]]
    /\ UNCHANGED <<applicants, reviewers, reviews, finalSelections, distribution, client, now,
                   writes, ui>>

\* await this.distributeApplicantsToReviewers()
seedAllDistribute ==
    /\ req[1].kind = "seedAll" /\ req[1].pc = "distribute"
    /\ \E apps \in SeqPermutations(applicants), revs \in SeqPermutations(reviewers) :
           LET q == req[1]
               sample == IF Len(apps) = 0 \/ Len(revs) = 0 THEN <<>>
                         ELSE sampleReviews(apps, revs)
           IN IF Len(sample) = 0
              THEN /\ req' = [req EXCEPT ![1] = [q EXCEPT !.pc = "sampleReviews"]]
                   /\ UNCHANGED reviews
              ELSE IF \A i \in DOMAIN sample : ReviewKeyFree(sample[i][1], sample[i][2])
              THEN /\ reviews' = [k \in DOMAIN reviews |->
                                     IF k \in Range(sample) THEN <<NewRow(EmptyBody)>>
                                     ELSE reviews[k]]
                   /\ req' = [req EXCEPT ![1] = [q EXCEPT !.pc = "sampleReviews",
                                                          !.wrote = TRUE]]
              ELSE /\ req' = [req EXCEPT ![1] = [q EXCEPT !.pc = "done", !.failed = TRUE]]
                   /\ UNCHANGED reviews
    /\ UNCHANGED <<applicants, reviewers, finalSelections, distribution, client, now, writes, ui>>

\* seedSampleReviews: the reviews without a decision, at most SampleLimit of them in
\* the order the store returns them, the first SampleSlice of these to be scored
seedSampleReviews ==
    /\ req[1].kind = "seedAll" /\ req[1].pc = "sampleReviews"
    /\ LET pending == {k \in DOMAIN reviews :
                          reviews[k] # <<>> /\ reviews[k][1].decision = NullStr}
           fetched == Min(Cardinality(pending), SampleLimit)
       IN \E updates \in [1..Min(fetched, SampleSlice) -> pending] :
              /\ \A i, j \in DOMAIN updates : i # j => updates[i] # updates[j]
              /\ req' = [req EXCEPT ![1] =
                           IF Len(updates) = 0 THEN [@ EXCEPT !.pc = "done"]
                           ELSE [@ EXCEPT !.pc = "updateSample", !.data = updates,
                                          !.cnt = 1]]
    /\ UNCHANGED <<applicants, reviewers, reviews, finalSelections, distribution, client, now,
                   writes, ui>>

\* for (const update of updates) await ...update({...}).eq('id', update.id)
seedSampleUpdate ==
    /\ req[1].kind = "seedAll" /\ req[1].pc = "updateSample"
    /\ LET q == req[1]
           k == q.data[q.cnt]
       IN /\ reviews' = [reviews EXCEPT ![k] =
                            [i \in DOMAIN @ |-> PatchedRow(@[i], sampleScores[q.cnt])]]
          /\ req' = [req EXCEPT ![1] =
                       IF q.cnt = Len(q.data) THEN [q EXCEPT !.pc = "done"]
                       ELSE [q EXCEPT !.cnt = q.cnt + 1]]
    /\ UNCHANGED <<applicants, reviewers, finalSelections, distribution, client, now, writes, ui>>

SeedInit ==
    /\ applicants = <<>>
    /\ reviewers = <<>>
    /\ reviews = [k \in (1..NumSeedApplicants) \X (1..NumSeedReviewers) |-> <<>>]
    /\ finalSelections = <<>>
    /\ req = [s \in Slots |-> Idle]
    /\ distribution = <<>>
    /\ client = ClientIdle
    /\ now = 0
    /\ writes = 0
    /\ ui = UiIdle
SeedNext ==
    \/ seedAll
    \/ isDataSeeded
    \/ seedApplicants
    \/ seedReviewers
    \/ seedAllAssignments
    \/ seedAllDistribute
    \/ seedSampleReviews
    \/ seedSampleUpdate
SeedSpec == SeedInit /\ [][SeedNext]_vars

(***************************************************************************)
(* The client: saveReview of services/api.ts, whose requests go through    *)
(* makeRequest to the backend routes; the backend handles them in slot     *)
(* ClientSlot.  Another reviewer session posts reviews in slot 1.          *)
(***************************************************************************)
ClientSlot == MaxInflight
retries == 2

\* res.json({ success: true, data: reviews }): the body of the GET /api/reviews answer
Envelope(rows) == [json |-> "object", success |-> TRUE, data |-> rows]
\* handleResponse: response.json() of a body, as it is
handleResponse(body) == body
\* Array.prototype.find exists on arrays only
HasFind(x) == x.json = "array"

\* GET /api/reviews?reviewer=...: the route reads applicant_id and reviewer_name only,
\* so it answers with all reviews
AllReviews == {k \in DOMAIN reviews : reviews[k] # <<>>}
GetReviews == Envelope(AllReviews)

ClientAtRest == client.pc \in {"idle", "done"}

\* saveReview(applicantId, { ...reviewData, reviewer_name })
saveReview(a, r, b) ==
    /\ ClientAtRest /\ \A s \in Slots : Free(s)
    /\ client' = [ClientIdle EXCEPT !.pc = "fetchReviews", !.a = a, !.r = r, !.body = b,
                                    !.existed = SingleRow(reviews[<<a, r>>])]
    /\ UNCHANGED <<applicants, reviewers, reviews, finalSelections, req, distribution, now,
                   writes, ui>>

\* existingReviews = await fetchReviews(reviewerName); existingReviews.find(...).
\* find on a value without it throws, and so does the PUT to /reviews/:id, a path no
\* route matches; the catch goes on to the POST either way.
fetchReviews ==
    /\ client.pc = "fetchReviews"
    /\ LET existingReviews == handleResponse(GetReviews)
           found == HasFind(existingReviews)
                    /\ \E k \in existingReviews.data : k[1] = client.a
       IN client' = [client EXCEPT !.pc = "post", !.attempt = 0, !.putTried = found]
    /\ UNCHANGED <<applicants, reviewers, reviews, finalSelections, req, distribution, now,
                   writes, ui>>

\* makeRequest('/reviews', { method: 'POST', body: {...reviewData, applicant_id} })
makeRequestPost ==
    /\ client.pc = "post" /\ Free(ClientSlot)
    /\ req' = [req EXCEPT ![ClientSlot] = PostReviewsValidated(client.a, client.r, client.body)]
    /\ client' = [client EXCEPT !.pc = "awaitPost"]
    /\ UNCHANGED <<applicants, reviewers, reviews, finalSelections, distribution, now, writes, ui>>

\* handleResponse throws on !response.ok; makeRequest sends the request again until
\* attempt === retries, then rethrows
ResponseThrown(c) ==
    IF c.attempt = retries
    THEN [c EXCEPT !.pc = "done", !.ok = FALSE]
    ELSE [c EXCEPT !.pc = "post", !.attempt = @ + 1]

makeRequestResponse ==
    /\ client.pc = "awaitPost" /\ req[ClientSlot].pc = "done"
    /\ client' = IF req[ClientSlot].status \in 200..299
                 THEN [client EXCEPT !.pc = "done", !.ok = TRUE]
                 ELSE ResponseThrown(client)
    /\ UNCHANGED <<applicants, reviewers, reviews, finalSelections, req, distribution, now,
                   writes, ui>>

ClientPairs == {1} \X {1, 2}
ClientInit == InitStore(NumReviewers)
ClientNext ==
    \/ \E p \in ClientPairs : ClientAtRest /\ PostReviews(1, p[1], p[2], Body20)
    \/ \E s \in Slots : PostReviewsExisting(s)
    \/ \E s \in Slots : createReview(s)
    \/ \E s \in Slots : statsGetReviews(s)
    \/ \E s \in Slots : statsGetFinalSelection(s)
    \/ \E s \in Slots : statsWrite(s)
    \/ \E p \in ClientPairs, b \in {Body28, BodyPartial} : saveReview(p[1], p[2], b)
    \/ fetchReviews
    \/ makeRequestPost
    \/ makeRequestResponse
ClientSpec == ClientInit /\ [][ClientNext]_vars

(***************************************************************************)
(* The component UrologicalReviewSystem and its hook useApiData.  The      *)
(* reviewer currentUser edits reviews; every edit goes through             *)
(* debouncedSave, whose timer calls the hook's saveReview, which calls     *)
(* saveReview of services/api.ts.  The call started by the n-th edit is    *)
(* process n and its requests are handled in backend slot n.               *)
(***************************************************************************)
MaxEdits == MaxInflight
currentUser == 1
UiEdits == {<<"preference", 4>>, <<"preference", 5>>, <<"notes", "n1">>, <<"notes", "n2">>}

\* useApiData returns a new object literal on every render, so the dependency apiData of
\* the useCallback around debouncedSave differs on every render
apiDataStable == FALSE

\* apiData.reviews.find(r => r.applicant_id === applicantId && r.reviewer_name === currentUser)
existingReview(a) ==
    LET hits == {x \in Range(ui.reviews.items) :
                    /\ "applicant_id" \in DOMAIN x
                    /\ x.applicant_id = a /\ x.reviewer_name = currentUser}
    IN IF hits = {} THEN EmptyBody ELSE (CHOOSE x \in hits : TRUE).body

\* { ...existingReview, [category]: score, reviewer_name: currentUser }
updatedReview(a, field, value) == [existingReview(a) EXCEPT ![field] = value]

\* lastFetch.progress of stamp is less than CACHE_DURATION old
isCacheValid(stamp) == stamp > ui.expired

\* handleScoreChange / handleNotesChange and the debouncedSave they call.  The timeouts
\* map belongs to the closure of one render; setSaveStatus renders the component again.
handleChange(a, field, value) ==
    /\ ~ui.broken /\ HasFind(ui.reviews)
    /\ Len(ui.edits) < MaxEdits
    /\ LET key == <<a, currentUser>>
           id == Len(ui.edits) + 1
           cleared == {t[2] : t \in {t \in ui.timeouts : t[1] = key}}
           kept == SelectSeq(ui.timers, LAMBDA t : t.id \notin cleared)
           timer == [id |-> id, a |-> a, r |-> currentUser,
                     body |-> updatedReview(a, field, value),
                     stamp |-> ui.lastFetch, loading |-> ui.progressLoading]
           map == {t \in ui.timeouts : t[1] # key} \cup {<<key, id>>}
       IN ui' = [ui EXCEPT !.timers = Append(kept, timer),
                           !.timeouts = IF apiDataStable THEN map ELSE {},
                           !.edits = Append(@, [field |-> field, value |-> value,
                                                inBurst |-> ui.timers # <<>>,
                                                saving |-> \E s \in Slots :
                                                    ui.procs[s].pc \notin {"idle", "done"}])]
    /\ UNCHANGED <<applicants, reviewers, reviews, finalSelections, req, distribution, client,
                   now, writes>>

\* the timer of an edit fires 500 ms after it: apiData.saveReview(applicantId, reviewData)
timerFires ==
    /\ ui.timers # <<>>
    /\ LET t == Head(ui.timers)
       IN ui' = [ui EXCEPT !.timers = Tail(@),
                           !.procs[t.id] = [UiProcIdle EXCEPT !.kind = "saveReview",
                                               !.pc = "fetchReviews", !.a = t.a, !.r = t.r,
                                               !.body = t.body, !.stamp = t.stamp,
                                               !.loading = t.loading]]
    /\ UNCHANGED <<applicants, reviewers, reviews, finalSelections, req, distribution, client,
                   now, writes>>

\* api.saveReview: existingReviews = await fetchReviews(reviewerName); .find(...)
uiFetchReviews(s) ==
    /\ ui.procs[s].kind = "saveReview" /\ ui.procs[s].pc = "fetchReviews"
    /\ LET existingReviews == handleResponse(GetReviews)
           found == HasFind(existingReviews)
                    /\ \E k \in existingReviews.data : k[1] = ui.procs[s].a
       IN ui' = [ui EXCEPT !.procs[s] = [@ EXCEPT !.pc = "post", !.putTried = found]]
    /\ UNCHANGED <<applicants, reviewers, reviews, finalSelections, req, distribution, client,
                   now, writes>>

\* makeRequest('/reviews', { method: 'POST', ... }), first attempt or after a backoff
uiPostReviews(s) ==
    /\ ui.procs[s].kind = "saveReview" /\ ui.procs[s].pc = "post" /\ Free(s)
    /\ req' = [req EXCEPT ![s] =
                 PostReviewsValidated(ui.procs[s].a, ui.procs[s].r, ui.procs[s].body)]
    /\ ui' = [ui EXCEPT !.procs[s] = [@ EXCEPT !.pc = "await"]]
    /\ UNCHANGED <<applicants, reviewers, reviews, finalSelections, distribution, client, now,
                   writes>>

\* the hook's refreshProgress: if (progressLoading || isCacheValid('progress')) return
refreshProgressSkipped(loading, stamp) == loading \/ isCacheValid(stamp)

\* the answer of the POST: makeRequest retries or rethrows; on success the hook appends
\* the answer to reviews and calls refreshProgress()
uiResponse(s) ==
    /\ ui.procs[s].kind = "saveReview" /\ ui.procs[s].pc = "await" /\ req[s].pc = "done"
    /\ LET p == ui.procs[s]
           fetch == ~refreshProgressSkipped(p.loading, p.stamp)
       IN ui' = IF req[s].status \in 200..299
                THEN [ui EXCEPT !.procs[s] = [p EXCEPT !.pc = "done", !.ok = TRUE,
                                                      !.refreshed = fetch],
                                !.reviews = IF HasFind(@)
                                            THEN [@ EXCEPT !.items =
                                                     Append(@, Envelope(<<p.a, p.r>>))]
                                            ELSE @,
                                !.progressLoading = @ \/ fetch,
                                !.fetching = IF fetch THEN @ + 1 ELSE @]
                ELSE [ui EXCEPT !.procs[s] = ResponseThrown(p)]
    /\ UNCHANGED <<applicants, reviewers, reviews, finalSelections, req, distribution, client,
                   now, writes>>

\* initializeData -> refreshAll -> refreshProgress, on mount
mountRefreshProgress ==
    /\ ~ui.mounted
    /\ ui' = [ui EXCEPT !.mounted = TRUE,
                        !.progressLoading = @ \/ ~refreshProgressSkipped(FALSE, 0),
                        !.fetching = IF refreshProgressSkipped(FALSE, 0) THEN @ ELSE @ + 1]
    /\ UNCHANGED <<applicants, reviewers, reviews, finalSelections, req, distribution, client,
                   now, writes>>

\* data = await api.fetchProgress(); setProgress(data); setLastFetch(...)
fetchProgressDone ==
    /\ ui.fetching > 0
    /\ ui' = [ui EXCEPT !.fetching = @ - 1, !.progressLoading = FALSE,
                        !.progress = CountAll(DOMAIN reviews),
                        !.lastFetch = @ + 1]
    /\ UNCHANGED <<applicants, reviewers, reviews, finalSelections, req, distribution, client,
                   now, writes>>

\* CACHE_DURATION passes after the oldest fetch that is still valid
cacheExpires ==
    /\ ui.expired < ui.lastFetch
    /\ ui' = [ui EXCEPT !.expired = @ + 1]
    /\ UNCHANGED <<applicants, reviewers, reviews, finalSelections, req, distribution, client,
                   now, writes>>

\* refreshAll -> refreshApplicants / refreshReviews: the answers are stored as they come,
\* { success, data } objects where the component expects arrays
refreshAllData ==
    /\ ui.mounted /\ ~ui.broken
    /\ ui' = [ui EXCEPT !.broken = TRUE, !.reviews = [json |-> "object", items |-> <<>>]]
    /\ UNCHANGED <<applicants, reviewers, reviews, finalSelections, req, distribution, client,
                   now, writes>>

UiInit == InitStore(NumReviewers)
UiNext ==
    \/ \E e \in UiEdits : handleChange(1, e[1], e[2])
    \/ timerFires
    \/ \E s \in Slots : uiFetchReviews(s)
    \/ \E s \in Slots : uiPostReviews(s)
    \/ \E s \in Slots : uiResponse(s)
    \/ \E s \in Slots : PostReviewsExisting(s)
    \/ \E s \in Slots : createReview(s)
    \/ \E s \in Slots : statsGetReviews(s)
    \/ \E s \in Slots : statsGetFinalSelection(s)
    \/ \E s \in Slots : statsWrite(s)
    \/ mountRefreshProgress
    \/ fetchProgressDone
    \/ cacheExpires
    \/ refreshAllData
UiSpec == UiInit /\ [][UiNext]_vars

(***************************************************************************)
(* handleAdminDecision of the component: the hook's saveFinalSelection and *)
(* saveFinalSelection of services/api.ts, handled in backend slot          *)
(* ClientSlot; an API caller sends final selections of its own in slot 1.  *)
(***************************************************************************)
\* decision === 'Selected' ? 'interview' : decision === 'Not Selected' ? 'reject' : 'waitlist'
FinalDecisionOf(decision) ==
    IF decision = "Selected" THEN "interview"
    ELSE IF decision = "Not Selected" THEN "reject" ELSE "waitlist"

\* JSON.stringify({ applicant_id, final_decision, admin_notes }): notes is undefined
FinalSelectionBody(a, decision) == [applicant_id |-> a, final_decision |-> decision]

\* what the route reads from the body
BodyKey(body, key) == IF key \in DOMAIN body THEN body[key] ELSE AbsentStr

handleAdminDecision(a, decision) ==
    /\ ui.procs[ClientSlot].pc \in {"idle", "done"} /\ \A s \in Slots : Free(s)
    /\ ui' = [ui EXCEPT !.procs[ClientSlot] =
                [UiProcIdle EXCEPT !.kind = "saveFinalSelection", !.pc = "post",
                                   !.a = a, !.decision = decision]]
    /\ UNCHANGED <<applicants, reviewers, reviews, finalSelections, req, distribution, client,
                   now, writes>>

\* makeRequest('/reviews/final-selections', { method: 'POST', body })
uiPostFinalSelections ==
    /\ ui.procs[ClientSlot].kind = "saveFinalSelection" /\ ui.procs[ClientSlot].pc = "post"
    /\ Free(ClientSlot)
    /\ LET p == ui.procs[ClientSlot]
           body == FinalSelectionBody(p.a, FinalDecisionOf(p.decision))
       IN req' = [req EXCEPT ![ClientSlot] =
                    PostFinalSelectionsValidated(body.applicant_id,
                                                 BodyKey(body, "admin_decision"),
                                                 BodyKey(body, "selection_reason"))]
    /\ ui' = [ui EXCEPT !.procs[ClientSlot] = [@ EXCEPT !.pc = "await"]]
    /\ UNCHANGED <<applicants, reviewers, reviews, finalSelections, distribution, client, now,
                   writes>>

\* the answer: makeRequest retries or rethrows; the hook returns the selection or null
uiFinalSelectionResponse ==
    /\ ui.procs[ClientSlot].kind = "saveFinalSelection" /\ ui.procs[ClientSlot].pc = "await"
    /\ req[ClientSlot].pc = "done"
    /\ ui' = [ui EXCEPT !.procs[ClientSlot] =
                IF req[ClientSlot].status \in 200..299
                THEN [@ EXCEPT !.pc = "done", !.ok = TRUE]
                ELSE ResponseThrown(@)]
    /\ UNCHANGED <<applicants, reviewers, reviews, finalSelections, req, distribution, client,
                   now, writes>>

AdminInit == InitStore(NumReviewers)
AdminNext ==
    \/ \E a \in ApplicantIds, d \in AdminDecisions : handleAdminDecision(a, d)
    \/ uiPostFinalSelections
    \/ uiFinalSelectionResponse
    \/ \E i \in RaceSelectionInputs :
           ui.procs[ClientSlot].pc \in {"idle", "done"} /\ PostFinalSelections(1, i[1], i[2], i[3])
    \/ \E s \in Slots : upsertGetReviews(s)
    \/ \E s \in Slots : upsertFinalSelection(s)
AdminSpec == AdminInit /\ [][AdminNext]_vars

(***************************************************************************)
(* Properties.                                                             *)
(***************************************************************************)
ReviewRoutes == {"POST /reviews", "PUT /reviews", "DELETE /reviews"}
Done(s) == req[s].pc = "done"
Abs(x) == IF x < 0 THEN 0 - x ELSE x

\* the stored rows of applicant a, counted and summed reviewer by reviewer
\* a row carries the fields a request body names
FieldsOf(x) == <<x.preference, x.pressure, x.underserved, x.leadership, x.academic,
                 x.research, x.personal>>
Carries(row, b) ==
    /\ \A i \in 1..7 : FieldsOf(b)[i] # Absent => FieldsOf(row)[i] = FieldsOf(b)[i]
    /\ b.notes # AbsentStr => row.notes = b.notes
    /\ b.decision # AbsentStr => row.decision = b.decision

RECURSIVE LiveCount(_, _)
LiveCount(a, n) == IF n = 0 THEN 0 ELSE Len(reviews[<<a, n>>]) + LiveCount(a, n - 1)
RECURSIVE LiveTotal(_, _)
LiveTotal(a, n) ==
    IF n = 0 THEN 0
    ELSE SumSeq([i \in DOMAIN reviews[<<a, n>>] |-> reviews[<<a, n>>][i].total_score])
         + LiveTotal(a, n - 1)

\* average_score (in hundredths) is the mean sum / n rounded to two decimals
IsRoundedMean(avg, sum, n) ==
    IF n = 0 THEN avg = 0 ELSE 2 * Abs(100 * sum - avg * n) <= n

StatsMatch(a) ==
    /\ a \in DOMAIN finalSelections
    /\ finalSelections[a].reviewer_count = LiveCount(a, NumReviewers)
    /\ IsRoundedMean(finalSelections[a].average_score,
                     LiveTotal(a, NumReviewers), LiveCount(a, NumReviewers))

\* C1: with requests handled one at a time and no store failure, after every review
\* create, update or delete that succeeded for applicant X, FinalSelection(X) exists,
\* its reviewer_count is the number of stored reviews of X and its average_score is
\* the mean of their total_score rounded to two decimals (0 without reviews).
C1_StatsFollowReviews ==
    (Done(1) /\ req[1].kind \in ReviewRoutes /\ req[1].status \in {200, 201})
        => StatsMatch(req[1].a)

\* three reviews with totals 28, 20 and 5: the mean 17.666... is stored as 17.67
C1_Witness ==
    /\ Done(1) /\ req[1].kind = "POST /reviews" /\ req[1].status = 201 /\ req[1].a = 1
    /\ LiveCount(1, NumReviewers) = 3 /\ LiveTotal(1, NumReviewers) = 53
    /\ finalSelections[1].average_score = 1767

\* C2: for a non-empty reviewer list, every regular applicant stands in the list of
\* exactly one reviewer of the map returned by getApplicantDistribution, exactly once;
\* two calls on the same applicants and the same reviewer order return the same map.
Listings(map, id) ==
    {p \in UNION {{<<name, k>> : k \in DOMAIN map[name]} : name \in DOMAIN map} :
        map[p[1]][p[2]].id = id}
CategoryOf(id) == applicants[CHOOSE i \in DOMAIN applicants : applicants[i].id = id].category
C4_OneReviewPerPair == \A k \in ReviewKeys : Len(reviews[k]) <= 1

\* two POSTs for one pair both passed the existence check; one has inserted and the
\* other's insert has been refused
C4_Witness ==
    \E s, t \in Slots :
        /\ s # t /\ req[s].kind = "POST /reviews" /\ req[t].kind = "POST /reviews"
        /\ req[s].a = req[t].a /\ req[s].r = req[t].r
        /\ req[s].wrote /\ Done(t) /\ req[t].sawExisting

\* C5: every stored review's total_score is the sum of its seven sub-scores with NULL
\* counted as 0, calculateTotalScore of the row gives the same value, and right after
\* a create calculateTotalScore of the request body equals the stored total_score.
NullAsZero(v) == IF v = Null THEN 0 ELSE v
C5_TotalIsSumOfScores ==
    /\ \A k \in ReviewKeys : \A i \in DOMAIN reviews[k] :
          LET row == reviews[k][i]
          IN /\ row.total_score =
                   NullAsZero(row.preference) + NullAsZero(row.pressure)
                   + NullAsZero(row.underserved) + NullAsZero(row.leadership)
                   + NullAsZero(row.academic) + NullAsZero(row.research)
                   + NullAsZero(row.personal)
             /\ calculateTotalScore(row) = row.total_score
    /\ (req[1].kind = "POST /reviews" /\ req[1].pc = "statsReviews")
          => reviews[<<req[1].a, req[1].r>>][1].total_score = calculateTotalScore(req[1].body)

\* a fully scored review updated in place (28 -> 30) beside one with NULL sub-scores
C5_Witness ==
    \E k, l \in ReviewKeys :
        /\ Len(reviews[k]) = 1 /\ reviews[k][1].total_score = 30
        /\ Len(reviews[l]) = 1 /\ reviews[l][1].personal = Null /\ reviews[l][1].total_score = 5

\* C6: a finished saveReview of the client has succeeded and left exactly one review
\* for the pair, carrying the submitted fields: created when there was none, updated
\* when there was one.
C6_FindOrCreateThenPatch ==
    client.pc = "done" =>
        /\ client.ok
        /\ Len(reviews[<<client.a, client.r>>]) = 1
        /\ Carries(reviews[<<client.a, client.r>>][1], client.body)

\* C7 (as claimed): a review create or update with a sub-score outside 1..5, which is
\* neither a duplicate create nor an update of a missing review, is answered 400 and
\* changes no row.
OutOfRange(b) == \E i \in 1..7 : ScoreOf(b)[i] \notin {Null, Absent} /\ ~(ScoreOf(b)[i] \in 1..5)
C7_OutOfRangeIs400 ==
    (Done(1) /\ req[1].kind \in {"POST /reviews", "PUT /reviews"} /\ OutOfRange(req[1].body)
        /\ req[1].status \notin {404, 409})
        => (req[1].status = 400 /\ ~req[1].wrote)

\* C8: a request answered 400, 404 or 409 has changed no table.
C8_RejectedChangesNothing ==
    (Done(1) /\ req[1].status \in {400, 404, 409}) => ~req[1].wrote

\* a DELETE of a missing review answered 404 while the applicant has no final selection
C8_Witness ==
    /\ Done(1) /\ req[1].kind = "DELETE /reviews" /\ req[1].status = 404
    /\ req[1].a \in ApplicantIds /\ req[1].a \notin DOMAIN finalSelections
    /\ writes > 0

\* C10 (as claimed): a POST /api/reviews whose pair has a review when the insert is
\* attempted is answered 409.
C10_DuplicateIs409 ==
    \A s \in Slots :
        (Done(s) /\ req[s].kind = "POST /reviews" /\ req[s].sawExisting) => req[s].status = 409

\* C9: when the review write of a create, update or delete succeeded and a store call
\* of the final-selection recompute failed, the request is still answered with
\* success (201 for the create, 200 for the update and the delete) and the review
\* change is in the store.
C9_RecomputeFailureSwallowed ==
    (Done(1) /\ req[1].failed) =>
        LET q == req[1]
            rows == reviews[<<q.a, q.r>>]
        IN /\ q.kind = "POST /reviews" => (q.status = 201 /\ Len(rows) = 1 /\ Carries(rows[1], q.body))
           /\ q.kind = "PUT /reviews" => (q.status = 200 /\ Len(rows) = 1 /\ Carries(rows[1], q.body))
           /\ q.kind = "DELETE /reviews" => (q.status = 200 /\ rows = <<>>)

\* a create answered 201 whose recompute failed: the review is stored, the applicant
\* has no final selection
C9_Witness ==
    /\ Done(1) /\ req[1].failed /\ req[1].kind = "POST /reviews" /\ req[1].status = 201
    /\ Len(reviews[<<req[1].a, req[1].r>>]) = 1
    /\ req[1].a \notin DOMAIN finalSelections

\* C11: for a non-empty reviewer list R and at least one regular applicant, the
\* regular applicant of rank i (counted from 0 in list order) stands at position
\* i div |R| of the list of R[i mod |R|], and the lists hold nothing else.
RegularIndices == {i \in DOMAIN applicants : applicants[i].category = "regular"}
Rank(i) == Cardinality({j \in RegularIndices : j < i})
AssignedCount(map, name) == IF name \in DOMAIN map THEN Len(map[name]) ELSE 0
C12_EvenDistribution ==
    \A c \in DOMAIN distribution :
        Len(distribution[c].reviewers) > 0 =>
            \A r1, r2 \in Range(distribution[c].reviewers) :
                AssignedCount(distribution[c].map, r1)
                    - AssignedCount(distribution[c].map, r2) \in {-1, 0, 1}

\* five regular and two i-sub applicants over three reviewers: counts 2, 2 and 1
C12_Witness ==
    \E c \in DOMAIN distribution :
        /\ Len(distribution[c].reviewers) = 3
        /\ Cardinality(RegularIndices) = 5 /\ Len(applicants) = 7
        /\ AssignedCount(distribution[c].map, distribution[c].reviewers[1]) = 2
        /\ AssignedCount(distribution[c].map, distribution[c].reviewers[3]) = 1

\* C13 (as claimed): the keys of the map are exactly the reviewer names, whatever the
\* number of regular applicants.
C13_KeysAreReviewerNames ==
    \A c \in DOMAIN distribution :
        DOMAIN distribution[c].map = Range(distribution[c].reviewers)

\* C14: the answer of getOverallProgress has completed = the number of review rows with
\* a non-null decision and total = (number of applicants) x (number of reviewers).
DecidedRows ==
    {p \in UNION {{<<k, i>> : i \in DOMAIN reviews[k]} : k \in DOMAIN reviews} :
        reviews[p[1]][p[2]].decision # NullStr}
C14_OverallProgress ==
    (Done(1) /\ req[1].kind = "GET /progress/overall") =>
        /\ req[1].progress.completed = Cardinality(DecidedRows)
        /\ req[1].progress.total = Len(applicants) * Len(reviewers)

\* three review rows, one of them scored without a decision: completed 2 of total 6
C14_Witness ==
    /\ Done(1) /\ req[1].kind = "GET /progress/overall"
    /\ Cardinality({k \in DOMAIN reviews : reviews[k] # <<>>}) = 3
    /\ \E k \in DOMAIN reviews :
           Len(reviews[k]) = 1 /\ reviews[k][1].decision = NullStr /\ reviews[k][1].total_score > 0
    /\ req[1].progress = [completed |-> 2, total |-> NumApplicants * NumReviewers]

\* C15: the step that ends the recompute of a review delete leaves the applicant's
\* final selection in place, with reviewer_count one less than before and equal to the
\* number of remaining reviews, and average_score the rounded mean of the remaining
\* reviews: 0 and 0 when the last review was deleted.
DeleteRecomputed ==
    /\ req[1].kind = "DELETE /reviews" /\ req[1].pc = "statsWrite"
    /\ req'[1].pc = "done"
C15_DeleteRecomputes ==
    [][DeleteRecomputed =>
         LET a == req[1].a
         IN /\ a \in DOMAIN finalSelections /\ a \in DOMAIN finalSelections'
            /\ finalSelections'[a].reviewer_count = finalSelections[a].reviewer_count - 1
            /\ finalSelections'[a].reviewer_count = LiveCount(a, NumReviewers)
            /\ IsRoundedMean(finalSelections'[a].average_score,
                             LiveTotal(a, NumReviewers), LiveCount(a, NumReviewers))
            /\ LiveCount(a, NumReviewers) = 0 =>
                   (finalSelections'[a].reviewer_count = 0
                    /\ finalSelections'[a].average_score = 0)]_vars

\* the last review of an applicant deleted: the final selection is still there, 0 and 0
C15_Witness ==
    /\ Done(1) /\ req[1].kind = "DELETE /reviews" /\ req[1].status = 200
    /\ LiveCount(req[1].a, NumReviewers) = 0
    /\ req[1].a \in DOMAIN finalSelections
    /\ finalSelections[req[1].a].reviewer_count = 0
    /\ finalSelections[req[1].a].average_score = 0

\* C16: in every reachable state of the interleaved requests, applicant deletion among
\* them, every review row and every final-selection row belongs to an applicant that
\* exists.
C16_RowsReferenceApplicants ==
    /\ \A k \in DOMAIN reviews : reviews[k] # <<>> => ApplicantExists(k[1])
    /\ \A a \in DOMAIN finalSelections : ApplicantExists(a)

\* an applicant with a review and a final selection was deleted, and a request on it
\* that was in flight has ended since
C16_Witness ==
    \E s, t \in Slots :
        /\ Done(s) /\ req[s].kind = "DELETE /applicants" /\ req[s].status = 200
        /\ req[s].cnt >= 1 /\ req[s].existing /\ ~ApplicantExists(req[s].a)
        /\ Done(t) /\ req[t].kind \in {"POST /reviews", "POST /final-selections"}
        /\ req[t].a = req[s].a /\ req[t].status = 500

\* C17 (as claimed): a step changes the decided_at of an applicant's final selection
\* only by giving it a timestamp while admin_decision moves away from Pending (from
\* Pending or from no row, to Selected or Not Selected).
DecidedAtBefore(a) ==
    IF a \in DOMAIN finalSelections THEN finalSelections[a].decided_at ELSE Null
DecisionBefore(a) ==
    IF a \in DOMAIN finalSelections THEN finalSelections[a].admin_decision ELSE "Pending"
C17_DecidedAtOnlyOnLeavingPending ==
    [][\A a \in DOMAIN finalSelections' :
           finalSelections'[a].decided_at # DecidedAtBefore(a) =>
               /\ DecisionBefore(a) = "Pending"
               /\ finalSelections'[a].admin_decision # "Pending"
               /\ finalSelections'[a].decided_at # Null]_vars

\* C18: the update step of a review update that repeats, right after it, the update just
\* answered with success (same applicant, same reviewer, same field values) succeeds
\* and leaves the reviews table as it was: the row keeps its sub-scores, notes, decision
\* and total_score, and stays single.
RepeatedUpdateApplied ==
    /\ req[1].kind = "PUT /reviews" /\ req[1].again
    /\ req[1].pc = "updateReview" /\ req'[1].pc # "updateReview"
C18_RepeatedUpdateChangesNothing ==
    [][RepeatedUpdateApplied =>
         /\ req'[1].pc = "statsReviews"
         /\ reviews' = reviews
         /\ Len(reviews'[<<req[1].a, req[1].r>>]) = 1
         /\ Carries(reviews'[<<req[1].a, req[1].r>>][1], req[1].body)]_vars

\* the same full update answered 200 twice in a row on a review created with other values
C18_Witness ==
    /\ Done(1) /\ req[1].kind = "PUT /reviews" /\ req[1].again /\ req[1].status = 200
    /\ req[1].body = Body20
    /\ reviews[<<req[1].a, req[1].r>>] = <<NewRow(Body20)>>

\* C19: a fetch by (applicant_id, reviewer_name) that directly follows the successful
\* create of that review is answered 200 with one review whose seven sub-scores, notes
\* and decision are the submitted ones, null where the create named none.
SubmittedOrNull(row, b) ==
    /\ \A i \in 1..7 :
           FieldsOf(row)[i] = (IF FieldsOf(b)[i] = Absent THEN Null ELSE FieldsOf(b)[i])
    /\ row.notes = (IF b.notes = AbsentStr THEN NullStr ELSE b.notes)
    /\ row.decision = (IF b.decision = AbsentStr THEN NullStr ELSE b.decision)
C19_CreateThenFetch ==
    (Done(1) /\ req[1].kind = "GET /reviews" /\ req[1].again) =>
        /\ req[1].status = 200
        /\ Len(req[1].data) = 1
        /\ SubmittedOrNull(req[1].data[1], req[1].body)

\* fetched right after a create that named pressure only: 5, and null everywhere else
C19_Witness ==
    /\ Done(1) /\ req[1].kind = "GET /reviews" /\ req[1].again /\ req[1].status = 200
    /\ req[1].body = BodyPartial
    /\ req[1].data[1].pressure = 5 /\ req[1].data[1].preference = Null
    /\ req[1].data[1].notes = NullStr /\ req[1].data[1].decision = NullStr

\* C20: no step of a seedAll run that starts on the store a seedAll run has just
\* populated adds, changes or removes an applicant, reviewer or review row, and the run
\* ends without an error.
C20_SecondSeedChangesNothing ==
    [][(req[1].kind = "seedAll" /\ req[1].again) =>
          /\ <<applicants, reviewers, reviews>>' = <<applicants, reviewers, reviews>>
          /\ ~req'[1].failed]_vars

\* the second run has ended on a store holding the sample data, the assignments of the
\* regular applicants and the sample scores
C20_Witness ==
    /\ req[1].kind = "seedAll" /\ req[1].again /\ req[1].pc = "done"
    /\ Len(applicants) = NumSeedApplicants /\ Len(reviewers) = NumSeedReviewers
    /\ CountAll(DOMAIN reviews) = NumSeedApplicants - 1
    /\ CountDecided(DOMAIN reviews) = Min(NumSeedApplicants - 1, SampleSlice)

\* C21 (as claimed): the POST of a review save is sent once; the client never sends it
\* again after it has failed.
C21_WriteSentOnce ==
    client.pc \in {"post", "awaitPost", "done"} => client.attempt = 0

\* C22 (as claimed): an edit cancels the timer of the edit before it, so at no time are
\* two save timers pending for the same applicant and reviewer, and a burst of edits
\* ends in one save request.
C22_OneTimerPerKey ==
    \A i, j \in DOMAIN ui.timers :
        (ui.timers[i].a = ui.timers[j].a /\ ui.timers[i].r = ui.timers[j].r) => i = j

\* C23 (as claimed): when two different fields of one review were edited, the second
\* before the save of the first had completed, and every save has finished, the stored
\* review holds the edited value of both fields.
UiAtRest == ui.timers = <<>> /\ \A s \in Slots : ui.procs[s].pc \in {"idle", "done"}
C23_MergeLosesNoEdit ==
    (/\ Len(ui.edits) = 2 /\ UiAtRest
     /\ ui.edits[1].field # ui.edits[2].field
     /\ (ui.edits[2].inBurst \/ ui.edits[2].saving)) =>
        LET rows == reviews[<<1, currentUser>>]
        IN /\ Len(rows) = 1
           /\ \A i \in 1..2 : rows[1][ui.edits[i].field] = ui.edits[i].value

\* C24 (as claimed): whenever every one of the interleaved review requests for an
\* applicant has completed, and one of them succeeded, the applicant's final selection
\* counts the stored reviews and averages their total_score.
C24_StatsMatchAfterRace ==
    ((\A s \in Slots : Free(s))
     /\ \E s \in Slots : Done(s) /\ req[s].kind \in ReviewRoutes /\ req[s].status \in {200, 201})
        => StatsMatch(1)

\* C25: a step of a review create, update or delete leaves admin_decision,
\* selection_reason and decided_at of every existing final selection as they are,
\* removes no final selection, and a final selection it creates is Pending with no
\* reason and no decision time; this holds with final-selection requests interleaved.
ReviewStep ==
    \E s \in Slots : req[s].kind \in ReviewRoutes /\ req[s].pc # "done" /\ req'[s] # req[s]
C25_RecomputeWritesStatsOnly ==
    [][ReviewStep =>
         /\ \A a \in DOMAIN finalSelections :
               /\ a \in DOMAIN finalSelections'
               /\ finalSelections'[a].admin_decision = finalSelections[a].admin_decision
               /\ finalSelections'[a].selection_reason = finalSelections[a].selection_reason
               /\ finalSelections'[a].decided_at = finalSelections[a].decided_at
         /\ \A a \in DOMAIN finalSelections' \ DOMAIN finalSelections :
               /\ finalSelections'[a].admin_decision = "Pending"
               /\ finalSelections'[a].selection_reason = NullStr
               /\ finalSelections'[a].decided_at = Null]_vars

\* applicant 1 was selected while it had no review; a review created afterwards has
\* brought reviewer_count to 1 and the decision is still there
C25_Witness ==
    /\ \E s \in Slots : /\ Done(s) /\ req[s].kind = "POST /final-selections"
                        /\ req[s].status = 201 /\ req[s].cnt = 0
    /\ \E s \in Slots : Done(s) /\ req[s].kind = "POST /reviews" /\ req[s].status = 201
    /\ 1 \in DOMAIN finalSelections
    /\ finalSelections[1].admin_decision = "Selected"
    /\ finalSelections[1].decided_at # Null
    /\ finalSelections[1].reviewer_count = 1

\* C26 (as claimed): an admin decision saved through the client is accepted and leaves
\* a final selection of the applicant with the chosen decision.
C26_AdminDecisionSaved ==
    LET p == ui.procs[ClientSlot]
    IN (p.kind = "saveFinalSelection" /\ p.pc = "done") =>
          /\ p.ok
          /\ p.a \in DOMAIN finalSelections
          /\ finalSelections[p.a].admin_decision = p.decision

\* C27 (as claimed): the completed count that getOverallProgress reports never
\* exceeds the expected total it reports (applicants times reviewers).
C27_CompletedWithinTotal ==
    (Done(1) /\ req[1].kind = "GET /progress/overall" /\ req[1].status = 200) =>
        req[1].progress.completed <= req[1].progress.total

\* C28 (as claimed): the completionRate and decisionRate of GET /api/progress/stats are
\* integers from 0 up, and 0 when there are no applicants or no reviewers.
C28_RatesWellDefined ==
    (Done(1) /\ req[1].kind = "GET /progress/stats" /\ req[1].status = 200) =>
        LET stats == req[1].data
        IN /\ stats.completionRate \in Nat /\ stats.decisionRate \in Nat
           /\ (stats.totalApplicants = 0 \/ stats.totalReviewers = 0) =>
                  stats.completionRate = 0
           /\ stats.totalApplicants = 0 => stats.decisionRate = 0

\* C29 (as claimed): every placeholder review (a, r) that the seeder has created has a
\* in the list of r in every map getApplicantDistribution returns for the same
\* applicants and reviewers.
C29_SeedAgreesWithDistribution ==
    \A c \in DOMAIN distribution : \A k \in DOMAIN reviews :
        reviews[k] # <<>> =>
            /\ k[2] \in DOMAIN distribution[c].map
            /\ \E i \in DOMAIN distribution[c].map[k[2]] :
                   distribution[c].map[k[2]][i].id = k[1]

\* C30 (as claimed): every call of the hook's saveReview that succeeded, made while no
\* fetch of the progress statistics was under way, has gone on to fetch them again.
C30_ProgressRefetchedAfterSave ==
    \A s \in Slots :
        (/\ ui.procs[s].kind = "saveReview" /\ ui.procs[s].pc = "done" /\ ui.procs[s].ok
         /\ ~ui.procs[s].loading)
            => ui.procs[s].refreshed

====
